---- MODULE Spec2Model ----
(***************************************************************************)
(* Model of the two scripts of the repository.                             *)
(*                                                                         *)
(*   Get_data_via_API.py          one GET request, export of the JSON      *)
(*                                array to assets_data.csv                 *)
(*   Asset_personality_analysis.py  merge of the asset and personality     *)
(*                                tables, GBP filter, top holder,          *)
(*                                per-entity totals, correlations,         *)
(*                                regression, group means, Kruskal-Wallis  *)
(*                                tests and the charts                     *)
(*                                                                         *)
(* Each script is a straight-line program: one action per statement (or    *)
(* group of statements) and a program counter.  An uncaught exception      *)
(* ends the run: the counter becomes "raised" and no later statement runs. *)
(***************************************************************************)
EXTENDS Integers, Sequences, FiniteSets, TLC

VARIABLES
    \* ---- Get_data_via_API.py
    ipc,            \* position of the ingestion script
    response,       \* the response of requests.get
    data,           \* response.json()
    file,           \* assets_data.csv on disk
    file0,          \* assets_data.csv as it was before the run
    out,            \* what the ingestion script printed
    ierr,           \* the exception that ended the ingestion script
    \* ---- Asset_personality_analysis.py
    pc,             \* position of the analysis script
    assets,         \* pd.read_csv("assets_data.csv")
    personality,    \* pd.read_csv("personality.csv")
    merged_data,
    gbp_data,
    gbp_totals,
    top_row,
    risk_score,
    gbp_summary,
    correlations,
    report,         \* regression_summary.html
    mean_traits_by_type,
    kruskal_results,
    trait_i,        \* index in trait_cols of the Kruskal-Wallis loop
    console,        \* what the analysis script printed
    shown,          \* the figures shown by plt.show()
    err             \* the exception that ended the analysis script

ivars == <<ipc, response, data, file, file0, out, ierr>>
avars == <<pc, assets, personality, merged_data, gbp_data, gbp_totals, top_row,
           risk_score, gbp_summary, correlations, report, mean_traits_by_type,
           kruskal_results, trait_i, console, shown, err>>
vars == <<ivars, avars>>

-----------------------------------------------------------------------------
(* Bounds of the enumerated inputs.                                        *)
MaxObjects == 2        \* longest JSON array the endpoint returns
MaxAssets == 2         \* most rows of assets_data.csv
MaxPersonality == 2    \* most rows of personality.csv

(* Generic helpers.                                                        *)
Range(s) == {s[i] : i \in 1..Len(s)}

SeqsUpTo(S, n) == UNION {[1..k -> S] : k \in 0..n}

RECURSIVE SumSeq(_)
SumSeq(s) == IF s = <<>> THEN 0 ELSE Head(s) + SumSeq(Tail(s))

RECURSIVE Flatten(_)
Flatten(ss) == IF ss = <<>> THEN <<>> ELSE Head(ss) \o Flatten(Tail(ss))

-----------------------------------------------------------------------------
(***************************************************************************)
(* Get_data_via_API.py                                                     *)
(***************************************************************************)

(* JSON values of a field: null, a number, a string.                       *)
JNull == [t |-> "null"]
JNum(n) == [t |-> "num", n |-> n]
JStr(s) == [t |-> "str", s |-> s]
JsonValues == {JNull, JNum(7), JStr("7")}

(* A JSON object is a Python dict: its keys in insertion order, each once. *)
Keys == {"_id", "asset_value"}
KeyOrders == {ks \in SeqsUpTo(Keys, Cardinality(Keys)) :
                \A i, j \in 1..Len(ks) : i # j => ks[i] # ks[j]}
JsonObjects == UNION {{[keys |-> ks, val |-> v] : v \in [Range(ks) -> JsonValues]} :
                        ks \in KeyOrders}
JsonArrays == SeqsUpTo(JsonObjects, MaxObjects)

(* A body that is not JSON (an HTML error page, say).                      *)
NotJson == [kind |-> "text", text |-> "<html>"]
JsonBody(a) == [kind |-> "json", value |-> a]
Bodies == {JsonBody(a) : a \in JsonArrays} \cup {NotJson}
StatusCodes == {200, 404, 500}
Responses == [status_code : StatusCodes, body : Bodies]

(* assets_data.csv: absent, or a sequence of lines, each line the sequence *)
(* of its cells.  A line without cells is a blank line.                    *)
NoFile == [exists |-> FALSE, lines |-> <<>>]
FileOf(ls) == [exists |-> TRUE, lines |-> ls]
OldFile == FileOf(<< <<"_id">>, <<"old">> >>)

(* str() of a number, as the csv writer applies it to a non-string cell.   *)
Digits == <<"0", "1", "2", "3", "4", "5", "6", "7", "8", "9">>
IntToStr(n) == Digits[n + 1]

(* The cell the csv writer emits for a value: None gives the empty string, *)
(* a string itself, anything else str(value).                              *)
CellOf(v) ==
    CASE v.t = "null" -> ""
      [] v.t = "num"  -> IntToStr(v.n)
      [] v.t = "str"  -> v.s

(* A writer that emits each object's values in the object's own key order.*)
DictToListOwnOrder(fieldnames, obj) ==
    [i \in 1..Len(obj.keys) |-> CellOf(obj.val[obj.keys[i]])]

(* DictWriter._dict_to_list with extrasaction="raise", restval="": the     *)
(* keys that are not field names, and the cells in field-name order.       *)
WrongFields(fieldnames, obj) == Range(obj.keys) \ Range(fieldnames)

DictToList(fieldnames, obj) ==
    [i \in 1..Len(fieldnames) |->
        IF fieldnames[i] \in Range(obj.keys) THEN CellOf(obj.val[fieldnames[i]]) ELSE ""]

(* writerows(data): the rows are converted and written one at a time, so   *)
(* the rows before the first offending object are in the file.             *)
FirstWrong(fieldnames, rows) ==
    IF \E i \in 1..Len(rows) : WrongFields(fieldnames, rows[i]) # {}
    THEN CHOOSE i \in 1..Len(rows) :
            /\ WrongFields(fieldnames, rows[i]) # {}
            /\ \A j \in 1..(i - 1) : WrongFields(fieldnames, rows[j]) = {}
    ELSE Len(rows) + 1

WrittenRows(fieldnames, rows) ==
    [i \in 1..(FirstWrong(fieldnames, rows) - 1) |-> DictToList(fieldnames, rows[i])]

IInit ==
    /\ ipc = "get"
    /\ response = [status_code |-> 0, body |-> NotJson]
    /\ data = <<>>
    /\ file0 \in {NoFile, OldFile}
    /\ file = file0
    /\ out = <<>>
    /\ ierr = "none"

(* line 23: response = requests.get(endpoint, headers=headers)             *)
Get ==
    /\ ipc = "get"
    /\ \E r \in Responses : response' = r
    /\ ipc' = "status"
    /\ UNCHANGED <<avars, data, file, file0, out, ierr>>

(* line 23, no response: requests.get raises (connection refused, ...).    *)
GetRaises ==
    /\ ipc = "get"
    /\ ipc' = "raised"
    /\ ierr' = "ConnectionError"
    /\ UNCHANGED <<avars, response, data, file, file0, out>>

(* lines 25-26: status 200, data = response.json()                         *)
ParseJson ==
    /\ ipc = "status"
    /\ response.status_code = 200
    /\ IF response.body = NotJson
       THEN /\ ipc' = "raised"
            /\ ierr' = "JSONDecodeError"
            /\ UNCHANGED data
       ELSE /\ data' = response.body.value
            /\ ipc' = "open"
            /\ UNCHANGED ierr
    /\ UNCHANGED <<avars, response, file, file0, out>>

(* line 29: open("assets_data.csv", mode="w") creates or truncates the     *)
(* file; line 30 then branches on the truth value of data.                 *)
OpenFile ==
    /\ ipc = "open"
    /\ file' = FileOf(<<>>)
    /\ ipc' = IF data # <<>> THEN "header" ELSE "empty"
    /\ UNCHANGED <<avars, response, data, file0, out, ierr>>

(* lines 31-32: DictWriter(file, fieldnames=data[0].keys()).writeheader()  *)
WriteHeader ==
    /\ ipc = "header"
    /\ file' = FileOf(Append(file.lines, data[1].keys))
    /\ ipc' = "rows"
    /\ UNCHANGED <<avars, response, data, file0, out, ierr>>

(* line 33: writer.writerows(data).  An object with a key that is not a    *)
(* field name raises ValueError; the with block closes the file.           *)
WriteRows ==
    /\ ipc = "rows"
    /\ LET fieldnames == data[1].keys
       IN /\ file' = FileOf(file.lines \o WrittenRows(fieldnames, data))
          /\ IF FirstWrong(fieldnames, data) <= Len(data)
             THEN /\ ipc' = "raised"
                  /\ ierr' = "ValueError"
             ELSE /\ ipc' = "extracted"
                  /\ UNCHANGED ierr
    /\ UNCHANGED <<avars, response, data, file0, out>>

(* line 34 *)
PrintExtracted ==
    /\ ipc = "extracted"
    /\ out' = Append(out, <<"csv data extracted : assets_data.csv">>)
    /\ ipc' = "done"
    /\ UNCHANGED <<avars, response, data, file, file0, ierr>>

(* line 36 *)
PrintFailed ==
    /\ ipc = "empty"
    /\ out' = Append(out, <<"failed to extract csv data">>)
    /\ ipc' = "done"
    /\ UNCHANGED <<avars, response, data, file, file0, ierr>>

(* An error branch that has already opened the file for writing.           *)
PrintErrorAfterOpen ==
    /\ ipc = "status"
    /\ response.status_code # 200
    /\ file' = FileOf(<<>>)
    /\ out' = Append(out, <<"error", response.status_code, response.body>>)
    /\ ipc' = "done"
    /\ UNCHANGED <<avars, response, data, file0, ierr>>

(* lines 37-38: print("error", response.status_code, response.text)        *)
PrintError ==
    /\ ipc = "status"
    /\ response.status_code # 200
    /\ out' = Append(out, <<"error", response.status_code, response.body>>)
    /\ ipc' = "done"
    /\ UNCHANGED <<avars, response, data, file, file0, ierr>>

(* pd.read_csv of the written file (Asset_personality_analysis.py line 19):*)
(* blank lines are skipped, the first remaining line is the header, the    *)
(* others are the rows.  A file without any line left cannot be read.      *)
NonBlank(ls) == SelectSeq(ls, LAMBDA l : l # <<>>)
Readable(f) == f.exists /\ NonBlank(f.lines) # <<>>
ReadHeader(f) == Head(NonBlank(f.lines))
ReadRows(f) == Tail(NonBlank(f.lines))

-----------------------------------------------------------------------------
(***************************************************************************)
(* Asset_personality_analysis.py                                           *)
(***************************************************************************)

(* A cell that may be missing (NaN): <<>> is missing, <<v>> holds v.       *)
NaN == <<>>
Some(v) == <<v>>
IsNull(c) == c = NaN

(* line 48 *)
trait_cols == <<"confidence", "risk_tolerance", "composure", "impulsivity", "impact_desire">>

(* The enumerated input tables.  groupby sorts its keys: IdOrder and       *)
(* AllocationOrder list the identifiers and categories in sorted order.    *)
IdOrder == <<"A", "B">>
AllocationOrder == <<"bond", "equity">>
Currencies == {"GBP", "USD"}
AssetValues == {1, 2}
(* GBP rows take every identifier, category and value; the rows in another *)
(* currency, which the filter of line 24 drops, take every identifier.     *)
AssetRows ==
    [_id : Range(IdOrder), asset_currency : {"GBP"},
     asset_allocation : Range(AllocationOrder), asset_value : AssetValues]
    \cup [_id : Range(IdOrder), asset_currency : Currencies \ {"GBP"},
          asset_allocation : {AllocationOrder[1]}, asset_value : {2}]

AllTraits(v) == [t \in Range(trait_cols) |-> v]
(* Personality rows: complete scores that differ between the identifiers,  *)
(* and for each identifier a row with one score missing.                   *)
Incomplete == [AllTraits(Some(3)) EXCEPT !["impact_desire"] = NaN]
TraitProfiles(id) == {AllTraits(Some(IF id = IdOrder[1] THEN 1 ELSE 2)), Incomplete}
PersonalityRows == UNION {[_id : {id}, traits : TraitProfiles(id)] : id \in Range(IdOrder)}

(* line 23: pd.merge(assets, personality, on="_id", how="inner").  One row *)
(* per (asset row, personality row) pair with the same _id, in the order   *)
(* of the asset rows.                                                      *)
JoinRow(a, p) == [_id |-> a._id, asset_currency |-> a.asset_currency,
                  asset_allocation |-> a.asset_allocation,
                  asset_value |-> a.asset_value, traits |-> p.traits]

Matches(a, pers) == SelectSeq(pers, LAMBDA p : p._id = a._id)

(* how="left": an asset row without personality row is kept, its traits  *)
(* missing.                                                                *)
LeftJoin(left, pers) ==
    Flatten([i \in 1..Len(left) |->
                LET m == Matches(left[i], pers)
                IN IF m = <<>>
                   THEN << JoinRow(left[i], [traits |-> [t \in Range(trait_cols) |-> NaN]]) >>
                   ELSE [j \in 1..Len(m) |-> JoinRow(left[i], m[j])]])

InnerMerge(left, pers) ==
    Flatten([i \in 1..Len(left) |->
                LET m == Matches(left[i], pers)
                IN [j \in 1..Len(m) |-> JoinRow(left[i], m[j])]])

(* line 24: merged_data[merged_data["asset_currency"] == "GBP"]            *)
FilterGbp(rows) == SelectSeq(rows, LAMBDA r : r.asset_currency = "GBP")

(* groupby("_id", as_index=False)["asset_value"].sum(): one row per _id    *)
(* that occurs, in sorted key order.                                       *)
RowsOf(rows, id) == SelectSeq(rows, LAMBDA r : r._id = id)

ValuesOf(rows) == [i \in 1..Len(rows) |-> rows[i].asset_value]

(* .first() in place of .sum().                                            *)
GroupFirst(rows) ==
    LET present == SelectSeq(IdOrder, LAMBDA id : RowsOf(rows, id) # <<>>)
    IN [k \in 1..Len(present) |->
            [_id |-> present[k], total |-> RowsOf(rows, present[k])[1].asset_value]]

GroupSum(rows) ==
    LET present == SelectSeq(IdOrder, LAMBDA id : RowsOf(rows, id) # <<>>)
    IN [k \in 1..Len(present) |->
            [_id |-> present[k], total |-> SumSeq(ValuesOf(RowsOf(rows, present[k])))]]

(* sort_values(by=total, ascending=False) with the default, unstable sort: *)
(* any arrangement of the rows with non-increasing totals.                 *)
(* ascending=True.                                                        *)
IsAscending(s) == \A i \in 1..(Len(s) - 1) : s[i].total <= s[i + 1].total

IsDescending(s) == \A i \in 1..(Len(s) - 1) : s[i].total >= s[i + 1].total

SortedDescending(rows) ==
    {s \in [1..Len(rows) -> Range(rows)] : Range(s) = Range(rows) /\ IsDescending(s)}

(* line 93: pd.merge(gbp_summary, personality, on="_id", how="left").  A   *)
(* total without personality record keeps one row with missing traits.     *)
LeftMerge(totals, pers) ==
    Flatten([i \in 1..Len(totals) |->
                LET m == Matches(totals[i], pers)
                IN IF m = <<>>
                   THEN << [_id |-> totals[i]._id, total_assets_gbp |-> totals[i].total,
                            traits |-> AllTraits(NaN)] >>
                   ELSE [j \in 1..Len(m) |->
                            [_id |-> totals[i]._id, total_assets_gbp |-> totals[i].total,
                             traits |-> m[j].traits]]])

(* line 96: the Pearson correlation of the totals with a trait over the    *)
(* rows where the trait is present.  It is NaN with fewer than two such    *)
(* rows or when either column is constant over them; the model keeps only  *)
(* whether the coefficient is a number.                                    *)
Corr(summary, trait) ==
    LET rows == SelectSeq(summary, LAMBDA r : ~IsNull(r.traits[trait]))
    IN IF /\ Len(rows) >= 2
          /\ \E i, j \in 1..Len(rows) : rows[i].total_assets_gbp # rows[j].total_assets_gbp
          /\ \E i, j \in 1..Len(rows) : rows[i].traits[trait] # rows[j].traits[trait]
       THEN "number"
       ELSE "nan"

(* lines 117-118: the builtin min and max keep their first argument when   *)
(* every comparison with it is false, so they return NaN exactly when the  *)
(* first coefficient is NaN.                                               *)
BuiltinMinIsNan(corr) == corr[trait_cols[1]] = "nan"

(* line 128: the rows the fit uses, those without a missing trait.         *)
CompleteCases(summary) ==
    SelectSeq(summary, LAMBDA r : \A t \in Range(trait_cols) : ~IsNull(r.traits[t]))

(* line 135: groupby("asset_allocation")[trait_cols].mean().round(3).  A   *)
(* mean skips missing values and is missing when nothing is left; means    *)
(* are kept in thousandths.                                                *)
AllocRows(rows, alloc) == SelectSeq(rows, LAMBDA r : r.asset_allocation = alloc)

PresentAllocations(rows) == SelectSeq(AllocationOrder, LAMBDA c : AllocRows(rows, c) # <<>>)

DropNa(rows, trait) ==
    LET kept == SelectSeq(rows, LAMBDA r : ~IsNull(r.traits[trait]))
    IN [i \in 1..Len(kept) |-> kept[i].traits[trait][1]]

Mean3(xs) ==
    IF xs = <<>> THEN NaN
    ELSE Some((2000 * SumSeq(xs) + Len(xs)) \div (2 * Len(xs)))

GroupMeans(rows) ==
    LET cats == PresentAllocations(rows)
    IN [k \in 1..Len(cats) |->
            [asset_allocation |-> cats[k],
             means |-> [t \in Range(trait_cols) |-> Mean3(DropNa(AllocRows(rows, cats[k]), t))]]]

(* line 141: one sample per allocation category present in gbp_data.       *)
Grouped(rows, trait) ==
    LET cats == PresentAllocations(rows)
    IN [k \in 1..Len(cats) |-> DropNa(AllocRows(rows, cats[k]), trait)]

(* line 142: scipy.stats.kruskal.  Fewer than two samples raise; an empty  *)
(* sample gives (nan, nan); identical observations raise; otherwise        *)
(* a statistic and a p-value, of which the model keeps only that they are  *)
(* numbers.                                                                *)
Kruskal(samples) ==
    IF Len(samples) < 2 THEN "ValueError"
    ELSE IF \E k \in 1..Len(samples) : samples[k] = <<>> THEN "nan"
    ELSE IF Cardinality(Range(Flatten(samples))) = 1 THEN "ValueError"
    ELSE "number"

AInit ==
    /\ pc = "load"
    /\ assets = <<>>
    /\ personality = <<>>
    /\ merged_data = <<>>
    /\ gbp_data = <<>>
    /\ gbp_totals = <<>>
    /\ top_row = <<>>
    /\ risk_score = <<>>
    /\ gbp_summary = <<>>
    /\ correlations = <<>>
    /\ report = <<>>
    /\ mean_traits_by_type = <<>>
    /\ kruskal_results = <<>>
    /\ trait_i = 1
    /\ console = <<>>
    /\ shown = <<>>
    /\ err = "none"

Raise(e) == pc' = "raised" /\ err' = e

(* lines 19-20: the two input files are read.                              *)
Load ==
    /\ pc = "load"
    /\ \E a \in SeqsUpTo(AssetRows, MaxAssets) : assets' = a
    /\ \E p \in SeqsUpTo(PersonalityRows, MaxPersonality) : personality' = p
    /\ pc' = "merge"
    /\ UNCHANGED <<ivars, merged_data, gbp_data, gbp_totals, top_row, risk_score, gbp_summary,
                   correlations, report, mean_traits_by_type, kruskal_results, trait_i,
                   console, shown, err>>

(* A merge that keeps the asset rows without personality row.              *)
MergeLeftAndFilter ==
    /\ pc = "merge"
    /\ merged_data' = LeftJoin(assets, personality)
    /\ gbp_data' = FilterGbp(LeftJoin(assets, personality))
    /\ pc' = "totals"
    /\ UNCHANGED <<ivars, assets, personality, gbp_totals, top_row, risk_score, gbp_summary,
                   correlations, report, mean_traits_by_type, kruskal_results, trait_i,
                   console, shown, err>>

(* lines 23-24 *)
MergeAndFilter ==
    /\ pc = "merge"
    /\ merged_data' = InnerMerge(assets, personality)
    /\ gbp_data' = FilterGbp(InnerMerge(assets, personality))
    /\ pc' = "totals"
    /\ UNCHANGED <<ivars, assets, personality, gbp_totals, top_row, risk_score, gbp_summary,
                   correlations, report, mean_traits_by_type, kruskal_results, trait_i,
                   console, shown, err>>

(* lines 28-34 *)
GbpTotals ==
    /\ pc = "totals"
    /\ \E s \in SortedDescending(GroupSum(gbp_data)) : gbp_totals' = s
    /\ pc' = "top"
    /\ UNCHANGED <<ivars, assets, personality, merged_data, gbp_data, top_row, risk_score,
                   gbp_summary, correlations, report, mean_traits_by_type,
                   kruskal_results, trait_i, console, shown, err>>

(* lines 35-37: gbp_totals.iloc[0] raises IndexError on an empty frame.    *)
TopRow ==
    /\ pc = "top"
    /\ IF gbp_totals = <<>>
       THEN /\ Raise("IndexError")
            /\ UNCHANGED top_row
       ELSE /\ top_row' = <<gbp_totals[1]>>
            /\ pc' = "risk"
            /\ UNCHANGED err
    /\ UNCHANGED <<ivars, assets, personality, merged_data, gbp_data, gbp_totals, risk_score,
                   gbp_summary, correlations, report, mean_traits_by_type,
                   kruskal_results, trait_i, console, shown>>

(* line 40: the first personality row of top_id; .values[0] raises         *)
(* IndexError when there is none.                                          *)
RiskLookup ==
    /\ pc = "risk"
    /\ LET found == Matches(top_row[1], personality)
       IN IF found = <<>>
          THEN /\ Raise("IndexError")
               /\ UNCHANGED risk_score
          ELSE /\ risk_score' = <<found[1].traits["risk_tolerance"]>>
               /\ pc' = "print_top"
               /\ UNCHANGED err
    /\ UNCHANGED <<ivars, assets, personality, merged_data, gbp_data, gbp_totals, top_row,
                   gbp_summary, correlations, report, mean_traits_by_type,
                   kruskal_results, trait_i, console, shown>>

(* line 43 *)
PrintTop ==
    /\ pc = "print_top"
    /\ console' = Append(console, [line |-> "top holder", id |-> top_row[1]._id,
                                   total |-> top_row[1].total, risk |-> risk_score[1]])
    /\ pc' = "plots"
    /\ UNCHANGED <<ivars, assets, personality, merged_data, gbp_data, gbp_totals, top_row,
                   risk_score, gbp_summary, correlations, report, mean_traits_by_type,
                   kruskal_results, trait_i, shown, err>>

(* lines 51-84: count plot, box plot and histogram of gbp_data.            *)
DistributionPlots ==
    /\ pc = "plots"
    /\ shown' = shown \o <<"countplot", "boxplot", "histogram">>
    /\ pc' = "summary"
    /\ UNCHANGED <<ivars, assets, personality, merged_data, gbp_data, gbp_totals, top_row,
                   risk_score, gbp_summary, correlations, report, mean_traits_by_type,
                   kruskal_results, trait_i, console, err>>

(* lines 92-96 *)
Summary ==
    /\ pc = "summary"
    /\ gbp_summary' = LeftMerge(GroupSum(gbp_data), personality)
    /\ correlations' = [t \in Range(trait_cols) |->
                            Corr(LeftMerge(GroupSum(gbp_data), personality), t)]
    /\ pc' = "barplot"
    /\ UNCHANGED <<ivars, assets, personality, merged_data, gbp_data, gbp_totals, top_row,
                   risk_score, report, mean_traits_by_type, kruskal_results, trait_i,
                   console, shown, err>>

(* lines 99-123: plt.ylim raises ValueError on a NaN limit.                *)
CorrelationBarPlot ==
    /\ pc = "barplot"
    /\ IF BuiltinMinIsNan(correlations)
       THEN /\ Raise("ValueError")
            /\ UNCHANGED shown
       ELSE /\ shown' = Append(shown, "barplot")
            /\ pc' = "regression"
            /\ UNCHANGED err
    /\ UNCHANGED <<ivars, assets, personality, merged_data, gbp_data, gbp_totals, top_row,
                   risk_score, gbp_summary, correlations, report, mean_traits_by_type,
                   kruskal_results, trait_i, console>>

(* lines 127-132: the fit raises ValueError when no complete row is left;  *)
(* otherwise the summary is printed and written to the report file.        *)
Regression ==
    /\ pc = "regression"
    /\ LET nobs == Len(CompleteCases(gbp_summary))
       IN IF nobs = 0
          THEN /\ Raise("ValueError")
               /\ UNCHANGED <<console, report>>
          ELSE /\ console' = Append(console, [line |-> "regression", nobs |-> nobs])
               /\ report' = <<[nobs |-> nobs]>>
               /\ pc' = "means"
               /\ UNCHANGED err
    /\ UNCHANGED <<ivars, assets, personality, merged_data, gbp_data, gbp_totals, top_row,
                   risk_score, gbp_summary, correlations, mean_traits_by_type,
                   kruskal_results, trait_i, shown>>

(* lines 135-136 *)
MeanTraits ==
    /\ pc = "means"
    /\ mean_traits_by_type' = GroupMeans(gbp_data)
    /\ console' = Append(console, [line |-> "means", table |-> GroupMeans(gbp_data)])
    /\ pc' = "kruskal"
    /\ UNCHANGED <<ivars, assets, personality, merged_data, gbp_data, gbp_totals, top_row,
                   risk_score, gbp_summary, correlations, report, kruskal_results,
                   trait_i, shown, err>>

(* lines 140-143: one pass of the loop over trait_cols.                    *)
KruskalTrait ==
    /\ pc = "kruskal"
    /\ trait_i <= Len(trait_cols)
    /\ LET trait == trait_cols[trait_i]
           res == Kruskal(Grouped(gbp_data, trait))
       IN IF res = "ValueError"
          THEN /\ Raise("ValueError")
               /\ UNCHANGED <<kruskal_results, trait_i>>
          ELSE /\ kruskal_results' = Append(kruskal_results, [trait |-> trait, H |-> res, p |-> res])
               /\ trait_i' = trait_i + 1
               /\ UNCHANGED <<pc, err>>
    /\ UNCHANGED <<ivars, assets, personality, merged_data, gbp_data, gbp_totals, top_row,
                   risk_score, gbp_summary, correlations, report, mean_traits_by_type,
                   console, shown>>

(* lines 144-145 *)
PrintKruskal ==
    /\ pc = "kruskal"
    /\ trait_i > Len(trait_cols)
    /\ console' = Append(console, [line |-> "kruskal", table |-> kruskal_results])
    /\ pc' = "heatmap"
    /\ UNCHANGED <<ivars, assets, personality, merged_data, gbp_data, gbp_totals, top_row,
                   risk_score, gbp_summary, correlations, report, mean_traits_by_type,
                   kruskal_results, trait_i, shown, err>>

(* lines 149-167 *)
Heatmap ==
    /\ pc = "heatmap"
    /\ shown' = Append(shown, "heatmap")
    /\ pc' = "done"
    /\ UNCHANGED <<ivars, assets, personality, merged_data, gbp_data, gbp_totals, top_row,
                   risk_score, gbp_summary, correlations, report, mean_traits_by_type,
                   kruskal_results, trait_i, console, err>>

-----------------------------------------------------------------------------
(* The two scripts are run separately; while one runs, the other stays at  *)
(* its initial state.                                                      *)
Init == IInit /\ AInit

IngestNext ==
    \/ Get
    \/ GetRaises
    \/ ParseJson
    \/ OpenFile
    \/ WriteHeader
    \/ WriteRows
    \/ PrintExtracted
    \/ PrintFailed
    \/ PrintError

AnalysisInit == Init /\ file0 = NoFile

AnalysisNext ==
    \/ Load
    \/ MergeAndFilter
    \/ GbpTotals
    \/ TopRow
    \/ RiskLookup
    \/ PrintTop
    \/ DistributionPlots
    \/ Summary
    \/ CorrelationBarPlot
    \/ Regression
    \/ MeanTraits
    \/ KruskalTrait
    \/ PrintKruskal
    \/ Heatmap

IngestSpec == Init /\ [][IngestNext]_vars
AnalysisSpec == AnalysisInit /\ [][AnalysisNext]_vars

-----------------------------------------------------------------------------
(***************************************************************************)
(* Properties of Get_data_via_API.py, checked under IngestSpec.            *)
(***************************************************************************)
Responded == ipc # "get" /\ ierr # "ConnectionError"
Ended == ipc \in {"done", "raised"}
FailedMessage == <<"failed to extract csv data">>

(* C1: a 200 response with an empty JSON array leaves assets_data.csv as   *)
(* it was before the run (not created, not changed), raises nothing and    *)
(* ends with the failure message printed.                                  *)
C1_EmptyArrayWritesNoFile ==
    (Responded /\ response.status_code = 200 /\ response.body = JsonBody(<<>>))
        => /\ file = file0
           /\ ipc # "raised"
           /\ (ipc = "done" => out = <<FailedMessage>>)

(* C2: after a response whose status is not 200 the file is as it was      *)
(* before the run, nothing is raised, and the run ends having printed      *)
(* exactly the line "error", the status code and the body text.            *)
C2_NonOkStatusReported ==
    (Responded /\ response.status_code # 200)
        => /\ file = file0
           /\ ipc \in {"status", "done"}
           /\ (ipc = "status" => out = <<>>)
           /\ (ipc = "done" => out = << <<"error", response.status_code, response.body>> >>)

C2_Witness ==
    /\ ipc = "done"
    /\ response.status_code = 404
    /\ response.body \in {JsonBody(a) : a \in JsonArrays \ {<<>>}}
    /\ file0 = OldFile
    /\ file = OldFile
    /\ Len(out) = 1

(* The round trip of a finished export of a non-empty array.               *)
HeaderAndRowsWritten ==
    /\ file.exists
    /\ Len(file.lines) = Len(data) + 1
    /\ file.lines[1] = data[1].keys
    /\ \A i \in 1..Len(data) :
         /\ Len(file.lines[i + 1]) = Len(data[1].keys)
         /\ \A k \in 1..Len(data[1].keys) :
              data[1].keys[k] \in Range(data[i].keys)
                => file.lines[i + 1][k] = CellOf(data[i].val[data[1].keys[k]])

ReadsBack ==
    /\ Readable(file)
    /\ ReadHeader(file) = data[1].keys
    /\ Len(ReadRows(file)) = Len(data)

ExportEnded == Ended /\ response.status_code = 200 /\ data # <<>>

(* C3 as stated: for every non-empty JSON array returned with status 200   *)
(* the file has the first object's field names as header and one row per   *)
(* object in array order, and reads back with the same field names and     *)
(* the same number of rows.                                                *)
C3_RoundTripEveryArray ==
    ExportEnded => (ipc = "done" /\ HeaderAndRowsWritten /\ ReadsBack)

(* C3 amended: the same, for the non-empty arrays whose first object has   *)
(* at least one field and whose objects have no field the first lacks.     *)
SharedFields ==
    /\ data[1].keys # <<>>
    /\ \A i \in 1..Len(data) : Range(data[i].keys) \subseteq Range(data[1].keys)

C3_RoundTripSharedFields ==
    (ExportEnded /\ SharedFields) => (ipc = "done" /\ HeaderAndRowsWritten /\ ReadsBack)

C3_Witness ==
    /\ ipc = "done"
    /\ Len(data) = 2
    /\ SharedFields
    /\ data[1].keys = <<"asset_value", "_id">>
    /\ data[2].keys = <<"_id">>
    /\ data[1].val["asset_value"] = JNum(7)
    /\ file.lines[2][1] = "7"
    /\ file.lines[3] = <<"", "7">>

-----------------------------------------------------------------------------
(***************************************************************************)
(* Properties of Asset_personality_analysis.py, checked under AnalysisSpec.*)
(***************************************************************************)
Merged == pc \notin {"load", "merge"}
AssetOf(r) == [_id |-> r._id, asset_currency |-> r.asset_currency,
               asset_allocation |-> r.asset_allocation, asset_value |-> r.asset_value]
PersonalityIds == {personality[j]._id : j \in 1..Len(personality)}
MatchingPairs == {ij \in (1..Len(assets)) \X (1..Len(personality)) :
                    assets[ij[1]]._id = personality[ij[2]]._id}

(* C4: the joined table holds exactly the asset rows whose identifier is   *)
(* in both tables, each with the traits of a personality row of that       *)
(* identifier, and has one row per matching (asset row, personality row)   *)
(* pair; the join raises nothing.                                          *)
C4_JoinCorrect ==
    Merged =>
        /\ {AssetOf(merged_data[k]) : k \in 1..Len(merged_data)}
             = {assets[i] : i \in {n \in 1..Len(assets) : assets[n]._id \in PersonalityIds}}
        /\ \A k \in 1..Len(merged_data) :
             \E j \in 1..Len(personality) :
                /\ personality[j]._id = merged_data[k]._id
                /\ personality[j].traits = merged_data[k].traits
        /\ Len(merged_data) = Cardinality(MatchingPairs)
        /\ (pc = "totals" => err = "none")

C4_Witness ==
    /\ pc = "totals"
    /\ Len(assets) = 2
    /\ assets[1]._id \in PersonalityIds
    /\ assets[2]._id \notin PersonalityIds
    /\ Len(personality) = 2
    /\ Len(merged_data) = 2

(* The GBP total of an identifier, from the joined table.                  *)
GbpTotalOf(id) ==
    SumSeq(ValuesOf(SelectSeq(merged_data,
                              LAMBDA r : r._id = id /\ r.asset_currency = "GBP")))

TopPrinted == console # <<>>

(* C5: the printed top holder's total is the sum of the values of its GBP  *)
(* rows, is at least the GBP total of every other identifier, and the      *)
(* printed risk tolerance is that of a personality row of the same         *)
(* identifier.                                                             *)
C5_TopHolderCorrect ==
    TopPrinted =>
        /\ console[1].line = "top holder"
        /\ gbp_data # <<>>
        /\ console[1].total = GbpTotalOf(console[1].id)
        /\ \A id \in Range(IdOrder) : console[1].total >= GbpTotalOf(id)
        /\ \E j \in 1..Len(personality) :
             /\ personality[j]._id = console[1].id
             /\ personality[j].traits["risk_tolerance"] = console[1].risk

C5_Witness ==
    /\ TopPrinted
    /\ Len(merged_data) = 2
    /\ merged_data[1]._id # merged_data[2]._id
    /\ \E k \in 1..2 :
         /\ merged_data[k].asset_currency = "USD"
         /\ merged_data[k]._id # console[1].id
         /\ merged_data[k].asset_value > console[1].total
         /\ merged_data[k].traits["risk_tolerance"] # console[1].risk

(* C6: with an empty GBP subset the run raises nothing.                    *)
C6_EmptyGbpDoesNotCrash ==
    (Merged /\ gbp_data = <<>>) => (pc # "raised" /\ err = "none")

(* The allocation categories with at least one value of a trait.           *)
NonEmptyCategories(trait) ==
    {c \in Range(AllocationOrder) : DropNa(AllocRows(gbp_data, c), trait) # <<>>}

(* C7: a trait with fewer than two allocation categories holding a value   *)
(* of the trait never gets a statistic/p-value row.                        *)
C7_KruskalNeedsTwoGroups ==
    \A k \in 1..Len(kruskal_results) :
        Cardinality(NonEmptyCategories(kruskal_results[k].trait)) >= 2

(* C8: when the Kruskal-Wallis test of one trait fails, the tests of the   *)
(* traits that do not fail still give their rows and the heatmap is still  *)
(* shown.                                                                  *)
KruskalFailed ==
    /\ pc = "raised"
    /\ \E k \in 1..Len(console) : console[k].line = "means"

C8_FailureIsolated ==
    KruskalFailed =>
        /\ "heatmap" \in Range(shown)
        /\ \A t \in Range(trait_cols) :
             Kruskal(Grouped(gbp_data, t)) # "ValueError"
                => \E k \in 1..Len(kruskal_results) : kruskal_results[k].trait = t

Summarised == pc \in {"barplot", "regression", "means", "kruskal", "heatmap", "done"}

GbpAssetRows(id) ==
    SelectSeq(assets, LAMBDA a : a._id = id /\ a.asset_currency = "GBP")

EntityTotalCorrect ==
    /\ \A id \in Range(IdOrder) :
         Cardinality({k \in 1..Len(gbp_summary) : gbp_summary[k]._id = id})
            = IF RowsOf(gbp_data, id) # <<>> THEN 1 ELSE 0
    /\ \A k \in 1..Len(gbp_summary) :
         /\ gbp_summary[k].total_assets_gbp = SumSeq(ValuesOf(GbpAssetRows(gbp_summary[k]._id)))
         /\ \E j \in 1..Len(personality) :
              /\ personality[j]._id = gbp_summary[k]._id
              /\ personality[j].traits = gbp_summary[k].traits

(* C9 as stated: for every pair of input tables the per-entity table has   *)
(* one row per identifier of the GBP subset, with the sum of the values of *)
(* that identifier's GBP asset rows and its trait scores.                  *)
C9_EntityTotalEveryInput ==
    Summarised => EntityTotalCorrect

(* C9 amended: the same, for the input tables in which no identifier has   *)
(* more than one personality row.                                          *)
UniquePersonalityIds ==
    \A i, j \in 1..Len(personality) : personality[i]._id = personality[j]._id => i = j

C9_EntityTotalUniqueIds ==
    (Summarised /\ UniquePersonalityIds) => EntityTotalCorrect

C9_Witness ==
    /\ Summarised
    /\ UniquePersonalityIds
    /\ Len(assets) = 2
    /\ Len(GbpAssetRows(assets[1]._id)) = 2
    /\ assets[1].asset_value # assets[2].asset_value
    /\ Len(gbp_summary) = 1
    /\ gbp_summary[1].total_assets_gbp = 3

(* C10: the identifier selected as top holder always has a personality     *)
(* row, so the risk tolerance lookup never ends in its IndexError, and a   *)
(* printed score is always one that the lookup found.                      *)
C10_LookupNeverMisses ==
    top_row # <<>> =>
        /\ top_row[1]._id \in PersonalityIds
        /\ ~(pc = "raised" /\ risk_score = <<>>)
        /\ (TopPrinted => risk_score # <<>> /\ console[1].risk = risk_score[1])

C10_Witness ==
    /\ pc = "print_top"
    /\ risk_score # <<>>
    /\ \E i \in 1..Len(assets) :
         /\ assets[i]._id \notin PersonalityIds
         /\ assets[i].asset_currency = "GBP"
         /\ assets[i].asset_value > top_row[1].total

====
